---- MODULE Spec2Model ----
(***************************************************************************)
(* The word-practice page (HomePage) of NextMindLabs as a state machine.   *)
(*                                                                         *)
(* The repository holds the page twice: the popup version                  *)
(* (src/unnamed/part_000: shuffled tiles, sound cues, "Weiter" popup) and  *)
(* the button version (src/app/page.tsx: tiles in dataset order, a "Next"  *)
(* button).  The variable `variant` selects the one a behaviour runs.      *)
(*                                                                         *)
(* One action is one event of the browser: the handler, the re-render and  *)
(* every effect (useEffect) that the re-render triggers, run to rest.      *)
(* Click handlers are the closures of the last render and read the current *)
(* state.  The keydown listener is registered by an effect whose           *)
(* dependencies are [allowedLetters, currentWord]: between two changes of  *)
(* the current word it keeps calling the handlers of the render that       *)
(* registered it, which read that render's isLocked and userInput          *)
(* (kbLocked, kbInput) while their functional updates (prev => ...) act on *)
(* the current state.                                                      *)
(*                                                                         *)
(* A JS string of the dataset or of the attempt is a sequence of           *)
(* one-character strings; event.key values are TLA+ strings.               *)
(***************************************************************************)
EXTENDS Integers, Sequences, FiniteSets, TLC

VARIABLES
    words,            \* the dataset (useState(() => wordsJson)), never changed
    variant,          \* "popup" (part_000) or "button" (app/page.tsx)
    mounted,          \* the mount effects have run
    currentIndex,     \* JS number
    userInput,        \* the attempt: sequence of letters
    isLocked,
    status,           \* "idle" | "success" | "error"
    feedback,         \* [message, tone]
    mistakes,         \* word id -> count
    progressLoaded,
    isAudioBusy,
    audioAvailable,
    shake,
    showNextPopup,    \* popup version only
    shuffledLetters,  \* popup version only
    storage,          \* localStorage[STORAGE_KEY]
    kbLocked,         \* isLocked as read by the registered keydown listener
    kbInput,          \* userInput as read by the registered keydown listener
    playPending,      \* a play() promise of the current word's clip is unsettled
    stalePlay         \* a play() promise started for an earlier word is unsettled

vars == <<words, variant, mounted, currentIndex, userInput, isLocked, status,
          feedback, mistakes, progressLoaded, isAudioBusy, audioAvailable,
          shake, showNextPopup, shuffledLetters, storage, kbLocked, kbInput,
          playPending, stalePlay>>

audioVars == <<isAudioBusy, audioAvailable, playPending, stalePlay>>

kbVars == <<kbLocked, kbInput>>

-----------------------------------------------------------------------------
(* Bounds *)

\* longest attempt the model lets the learner build
MaxInput == 3

\* highest value a mistake counter is driven to
MaxMistakes == 1

-----------------------------------------------------------------------------
(* JS numbers: an integer or NaN *)

Num(i) == [nan |-> FALSE, v |-> i]

NaN == [nan |-> TRUE, v |-> 0]

\* a % b of JS for integers, b > 0: the sign of the dividend
JsRem(a, b) == IF a >= 0 THEN a % b ELSE 0 - ((0 - a) % b)

JsAdd(x, k) == IF x.nan THEN NaN ELSE Num(x.v + k)

\* the index returned as it is: no wrap
normalizeIndex_noWrap(index, total) ==
    IF total = 0 THEN Num(0) ELSE index

normalizeIndex(index, total) ==
    IF total = 0 THEN Num(0)
    ELSE IF index.nan THEN NaN
    ELSE Num(JsRem(JsRem(index.v, total) + total, total))

-----------------------------------------------------------------------------
(* The dataset *)

Word(id, word, letters, tip) ==
    [id |-> id, word |-> word, letters |-> letters, tip |-> tip]

AllWords ==
    << Word("w1", <<"d", "a">>, <<"d", "a">>, ""),
       Word("w2", <<"a", "b">>, <<"a", "b">>, "a wie Apfel"),
       Word("w3", <<"b", "a">>, <<"a", "b">>, "") >>

Datasets == { SubSeq(AllWords, 1, n) : n \in 0..Len(AllWords) }

Variants == {"popup", "button"}

\* words[currentIndex] is defined
HasWord ==
    /\ ~currentIndex.nan
    /\ currentIndex.v \in 0..(Len(words) - 1)

currentWord == words[currentIndex.v + 1]

\* the tiles the letter grid renders
Tiles ==
    IF variant = "popup" THEN shuffledLetters
    ELSE IF HasWord THEN currentWord.letters ELSE <<>>

-----------------------------------------------------------------------------
(* Strings *)

\* the characters of a one-character JS string
Chars(s) == <<s>>

RECURSIVE join(_)
join(input) ==
    IF input = <<>> THEN <<>>
    ELSE Chars(Head(input)) \o join(Tail(input))

\* event.key values the model presses
LetterKeys == {"a", "b", "d", "x", "A"}

Keys == LetterKeys \cup {"Backspace", "Enter", "Escape", "Shift"}

toLowerCase(key) ==
    CASE key = "A" -> "a"
      [] key = "Backspace" -> "backspace"
      [] key = "Enter" -> "enter"
      [] key = "Escape" -> "escape"
      [] key = "Shift" -> "shift"
      [] OTHER -> key

KeyLength(key) == IF key \in LetterKeys \cup {toLowerCase(k) : k \in LetterKeys} THEN 1 ELSE 5

allowedLetters ==
    IF HasWord
    THEN { toLowerCase(currentWord.letters[i]) : i \in 1..Len(currentWord.letters) }
    ELSE {}

-----------------------------------------------------------------------------
(* Feedback *)

Msg(text) == [text |-> text, count |-> 0, suffix |-> "", hint |-> <<>>]

Neutral == [message |-> Msg(""), tone |-> "neutral"]

MsgEmpty ==
    IF variant = "popup" THEN Msg("Fang mit einem Buchstaben an!")
    ELSE Msg("Starte mit einem Buchstaben!")

\* the message with the plural form whatever the number
MsgLength_plural(remaining) ==
    IF remaining > 0
    THEN [text |-> "Dir fehlen noch", count |-> remaining,
          suffix |-> "Buchstaben.", hint |-> <<>>]
    ELSE IF variant = "popup" THEN Msg("Du hast zu viele Buchstaben gewaehlt.")
    ELSE Msg("Zu viele Buchstaben.")

MsgLength(remaining) ==
    IF remaining > 0
    THEN [text |-> "Dir fehlen noch", count |-> remaining,
          suffix |-> IF remaining = 1 THEN "Buchstabe." ELSE "Buchstaben.",
          hint |-> <<>>]
    ELSE IF variant = "popup" THEN Msg("Du hast zu viele Buchstaben gewaehlt.")
    ELSE Msg("Zu viele Buchstaben.")

MsgWrong(tip) ==
    [text |-> IF variant = "popup" THEN "Noch nicht ganz richtig." ELSE "Fast!",
     count |-> 0, suffix |-> "",
     hint |-> IF tip # "" THEN <<"Tipp:", tip>> ELSE <<"Versuch es noch einmal.">>]

MsgCorrect == Msg("Richtig!")

MsgAudio == Msg("Audio fehlt - bitte Lehrer:in informieren.")

-----------------------------------------------------------------------------
(* localStorage and JSON *)

EmptyMap == [k \in {} |-> 0]

\* a JSON value of a field of the stored record
JAbsent == [t |-> "absent", v |-> 0, m |-> EmptyMap]

JNull == [t |-> "null", v |-> 0, m |-> EmptyMap]

JNum(i) == [t |-> "num", v |-> i, m |-> EmptyMap]

JStr == [t |-> "str", v |-> 0, m |-> EmptyMap]

JMap(m) == [t |-> "map", v |-> 0, m |-> m]

\* getItem returns null
NoItem == [kind |-> "missing", index |-> JAbsent, mistakes |-> JAbsent]

\* the item is ""
EmptyItem == [kind |-> "empty", index |-> JAbsent, mistakes |-> JAbsent]

\* the item is no JSON text
GarbageItem == [kind |-> "garbage", index |-> JAbsent, mistakes |-> JAbsent]

\* the item is the JSON text null
NullItem == [kind |-> "null", index |-> JAbsent, mistakes |-> JAbsent]

\* the item is the JSON text of an object
ObjectItem(index, m) == [kind |-> "object", index |-> index, mistakes |-> m]

\* JSON.stringify({ index, mistakes }): NaN is written as null
JSONstringify(index, m) ==
    ObjectItem(IF index.nan THEN JNull ELSE JNum(index.v), JMap(m))

\* parsed.index ?? 0, as the number the arithmetic of normalizeIndex sees
parsedIndex(item) ==
    CASE item.index.t = "num" -> Num(item.index.v)
      [] item.index.t = "str" -> NaN
      [] OTHER -> Num(0)

\* the stored mistakes not restored
parsedMistakes_dropped(item) == EmptyMap

\* parsed.mistakes ?? {}
parsedMistakes(item) ==
    IF item.mistakes.t = "map" THEN item.mistakes.m ELSE EmptyMap

\* the try block of the load effect reaches setCurrentIndex and setMistakes
loadSets(item) == item.kind = "object"

\* what the mount finds in storage
MistakeMaps == { EmptyMap, ("w1" :> 1) }

\* records of the shape { index: integer, mistakes: mapping }; the index may
\* have been saved with a longer dataset, or be negative
ShapedItems ==
    { ObjectItem(JNum(i), JMap(m)) : i \in -1..Len(AllWords), m \in MistakeMaps }

\* a record saved with a dataset that held a word "w9"
ForeignItem == ObjectItem(JNum(1), JMap(("w9" :> 1)))

\* JSON objects of another shape: {"index": "x", "mistakes": {}} and {}
MisshapenItems ==
    { ObjectItem(JStr, JMap(EmptyMap)), ObjectItem(JAbsent, JAbsent) }

StoredValues ==
    {NoItem, EmptyItem, GarbageItem, NullItem, ForeignItem}
    \cup ShapedItems \cup MisshapenItems

\* the save effect: setItem succeeds, or throws and is caught
\* the save effect without the test of progressLoaded
saved_unguarded(loaded, index, m) == {JSONstringify(index, m), storage}

saved(loaded, index, m) ==
    IF loaded THEN {JSONstringify(index, m), storage} ELSE {storage}

-----------------------------------------------------------------------------
(* shuffleArray: every outcome of the random choices *)

\* array[i] = array[j] alone: the value of array[i] is lost
Swap_overwrite(array, i, j) == [array EXCEPT ![i] = array[j]]

\* [array[i], array[j]] = [array[j], array[i]]
Swap(array, i, j) == [array EXCEPT ![i] = array[j], ![j] = array[i]]

RECURSIVE shuffleFrom(_, _)
shuffleFrom(array, i) ==
    IF i <= 1 THEN {array}
    ELSE UNION { shuffleFrom(Swap(array, i, j), i - 1) : j \in 1..i }

shuffleArray(input) == shuffleFrom(input, Len(input))

\* shuffledLetters once the effects of a render with current word w have run
shuffledFor(hasWord, w) ==
    IF variant # "popup" \/ ~hasWord THEN {<<>>} ELSE shuffleArray(w.letters)

-----------------------------------------------------------------------------
\* the first render of a session over one of `datasets`, in one of `variants`,
\* with one of `stored` in localStorage
InitOf(datasets, variants, stored) ==
    /\ words \in datasets
    /\ variant \in variants
    /\ mounted = FALSE
    /\ currentIndex = Num(0)
    /\ userInput = <<>>
    /\ isLocked = FALSE
    /\ status = "idle"
    /\ feedback = Neutral
    /\ mistakes = EmptyMap
    /\ progressLoaded = FALSE
    /\ isAudioBusy = FALSE
    /\ audioAvailable = TRUE
    /\ shake = FALSE
    /\ showNextPopup = FALSE
    /\ shuffledLetters =
         IF variant = "popup" /\ Len(words) > 0 THEN words[1].letters ELSE <<>>
    /\ storage \in stored
    /\ kbLocked = FALSE
    /\ kbInput = <<>>
    /\ playPending = FALSE
    /\ stalePlay = FALSE

Init == InitOf(Datasets, Variants, StoredValues)

\* the load effect runs whatever the dataset
loadSkipped_never == FALSE

\* the load effect returns at once: words.length === 0
loadSkipped == Len(words) = 0

\* The first render's effects and the render they cause: load progress, save,
\* per-word reset, shuffle, keydown registration.  The save effect runs twice:
\* after the first render, with that render's progressLoaded, currentIndex
\* and mistakes, and after the render the load caused, with the loaded ones.
Mount ==
    /\ ~mounted
    /\ mounted' = TRUE
    /\ UNCHANGED <<words, variant, userInput, isLocked, status, feedback,
                   audioVars, shake, showNextPopup>>
    /\ IF loadSkipped
       THEN /\ UNCHANGED <<currentIndex, mistakes, progressLoaded,
                            shuffledLetters, kbVars>>
            /\ storage' \in saved(progressLoaded, currentIndex, mistakes)
       ELSE LET sets == loadSets(storage)
                index == IF sets
                         THEN normalizeIndex(parsedIndex(storage), Len(words))
                         ELSE currentIndex
                m == IF sets THEN parsedMistakes(storage) ELSE mistakes
                has == ~index.nan /\ index.v \in 0..(Len(words) - 1)
            IN  /\ currentIndex' = index
                /\ mistakes' = m
                /\ progressLoaded' = TRUE
                /\ storage' \in saved(progressLoaded, currentIndex, mistakes)
                                \cup saved(TRUE, index, m)
                /\ shuffledLetters' \in
                     shuffledFor(has, IF has THEN words[index.v + 1] ELSE words[1])
                /\ kbLocked' = isLocked
                /\ kbInput' = userInput

-----------------------------------------------------------------------------
(* The handlers.  locked and input are isLocked and userInput as the calling *)
(* closure reads them: the current ones for a click, kbLocked and kbInput   *)
(* for a key press.                                                         *)

handleLetterClick(locked, input, letter) ==
    /\ UNCHANGED <<words, variant, mounted, currentIndex, isLocked, status,
                   feedback, mistakes, progressLoaded, audioVars, showNextPopup,
                   shuffledLetters, storage, kbVars>>
    /\ IF locked
       THEN UNCHANGED <<userInput, shake>>
       ELSE IF Len(input) >= Len(currentWord.word)
       THEN shake' = TRUE /\ UNCHANGED userInput
       ELSE /\ Len(userInput) < MaxInput
            /\ userInput' = Append(userInput, letter)
            /\ UNCHANGED shake

handleBackspace(locked, input) ==
    /\ UNCHANGED <<words, variant, mounted, currentIndex, isLocked, status,
                   feedback, mistakes, progressLoaded, audioVars, shake,
                   showNextPopup, shuffledLetters, storage, kbVars>>
    /\ IF locked \/ Len(input) = 0
       THEN UNCHANGED userInput
       ELSE userInput' = SubSeq(userInput, 1, Len(userInput) - 1)

\* the guard without the test of the attempt
clearIgnored_lockOnly(locked, input) == locked

\* isLocked || userInput.length === 0
clearIgnored(locked, input) == locked \/ Len(input) = 0

handleClear(locked, input) ==
    /\ UNCHANGED <<words, variant, mounted, currentIndex, isLocked, mistakes,
                   progressLoaded, audioVars, shake, showNextPopup,
                   shuffledLetters, storage, kbVars>>
    /\ IF clearIgnored(locked, input)
       THEN UNCHANGED <<userInput, feedback, status>>
       ELSE /\ userInput' = <<>>
            /\ feedback' = Neutral
            /\ status' = "idle"

\* userInput === currentWord.word: the array against the string
isCorrect_never(attempt, word) == FALSE

\* attempt === currentWord.word
isCorrect(attempt, word) == attempt = word

\* { [id]: (prev[id] ?? 0) + 1 }: the spread of prev forgotten
incrementMistake_noSpread(prev, id) ==
    (id :> ((IF id \in DOMAIN prev THEN prev[id] ELSE 0) + 1))

\* { ...prev, [id]: (prev[id] ?? 0) + 1 }
incrementMistake(prev, id) ==
    (id :> ((IF id \in DOMAIN prev THEN prev[id] ELSE 0) + 1)) @@ prev

\* the length check left out
lengthMismatch_unchecked(attempt, word) == FALSE

\* attempt.length !== currentWord.word.length
lengthMismatch(attempt, word) == Len(attempt) # Len(word)

handleCheck(locked, input) ==
    LET attempt == join(input)
        word == currentWord.word
    IN  /\ UNCHANGED <<words, variant, mounted, currentIndex, userInput,
                       progressLoaded, audioVars, shuffledLetters, kbVars>>
        /\ IF locked
           THEN UNCHANGED <<isLocked, status, feedback, mistakes, shake,
                            showNextPopup, storage>>
           ELSE IF Len(attempt) = 0
           THEN /\ feedback' = [message |-> MsgEmpty, tone |-> "error"]
                /\ status' = "error"
                /\ shake' = TRUE
                /\ UNCHANGED <<isLocked, mistakes, showNextPopup, storage>>
           ELSE IF lengthMismatch(attempt, word)
           THEN /\ feedback' = [message |-> MsgLength(Len(word) - Len(attempt)),
                                tone |-> "error"]
                /\ status' = "error"
                /\ shake' = TRUE
                /\ UNCHANGED <<isLocked, mistakes, showNextPopup, storage>>
           ELSE IF isCorrect(attempt, word)
           THEN /\ isLocked' = TRUE
                /\ status' = "success"
                /\ feedback' = [message |-> MsgCorrect, tone |-> "success"]
                /\ showNextPopup' = (variant = "popup")
                /\ UNCHANGED <<mistakes, shake, storage>>
           ELSE /\ feedback' = [message |-> MsgWrong(currentWord.tip),
                                tone |-> "error"]
                /\ status' = "error"
                /\ shake' = TRUE
                /\ mistakes' = incrementMistake(mistakes, currentWord.id)
                /\ \A id \in DOMAIN mistakes' : mistakes'[id] <= MaxMistakes
                /\ storage' \in saved(progressLoaded, currentIndex, mistakes')
                /\ UNCHANGED <<isLocked, showNextPopup>>

\* setCurrentIndex(prev => normalizeIndex(prev + 1, words.length)), and the
\* effects of the render: none when the index is the old one; else save,
\* per-word reset, shuffle, and the keydown listener registered anew from
\* the render that still holds the old word's isLocked and userInput.
handleNext ==
    IF Len(words) = 0
    THEN UNCHANGED vars
    ELSE LET next == normalizeIndex(JsAdd(currentIndex, 1), Len(words))
             has == ~next.nan /\ next.v \in 0..(Len(words) - 1)
         IN  /\ UNCHANGED <<words, variant, mounted, mistakes, progressLoaded>>
             /\ currentIndex' = next
             /\ IF next = currentIndex
                THEN /\ showNextPopup' = FALSE
                     /\ UNCHANGED <<userInput, isLocked, status, feedback,
                                    audioVars, shake, shuffledLetters, storage,
                                    kbVars>>
                ELSE /\ storage' \in saved(progressLoaded, next, mistakes)
                     /\ userInput' = <<>>
                     /\ isLocked' = FALSE
                     /\ status' = "idle"
                     /\ feedback' = Neutral
                     /\ shake' = FALSE
                     /\ audioAvailable' = TRUE
                     /\ isAudioBusy' = FALSE
                     /\ showNextPopup' = FALSE
                     /\ shuffledLetters' \in
                          shuffledFor(has, IF has THEN words[next.v + 1] ELSE words[1])
                     /\ playPending' = FALSE
                     /\ stalePlay' = (stalePlay \/ playPending)
                     /\ kbLocked' = isLocked
                     /\ kbInput' = userInput

\* the advance affordance rendered whatever the lock
nextOffered_always == TRUE

\* the advance affordance is rendered and enabled: the popup (popup version),
\* the Next button, disabled={!isLocked} (button version)
nextOffered == IF variant = "popup" THEN showNextPopup ELSE isLocked

-----------------------------------------------------------------------------
(* The events *)

\* the page renders the practice view
Interactive == mounted /\ HasWord

ClickLetter(t) ==
    /\ Interactive
    /\ t \in 1..Len(Tiles)
    /\ handleLetterClick(isLocked, userInput, Tiles[t])

ClickBackspace ==
    /\ Interactive
    /\ handleBackspace(isLocked, userInput)

ClickClear ==
    /\ Interactive
    /\ handleClear(isLocked, userInput)

ClickCheck ==
    /\ Interactive
    /\ handleCheck(isLocked, userInput)

ClickNext ==
    /\ Interactive
    /\ nextOffered
    /\ handleNext

\* event.key passed on as it is
keyLetter_raw(key) == key

\* the letter a letter key appends: key = event.key.toLowerCase()
keyLetter(key) == toLowerCase(key)

\* handleKeydown of the registered listener
KeyDown(key) ==
    /\ mounted
    /\ IF ~HasWord THEN UNCHANGED vars
       ELSE IF key = "Backspace" THEN handleBackspace(kbLocked, kbInput)
       ELSE IF key = "Enter" THEN handleCheck(kbLocked, kbInput)
       ELSE IF key = "Escape" THEN handleClear(kbLocked, kbInput)
       ELSE IF KeyLength(toLowerCase(key)) = 1 /\ toLowerCase(key) \in allowedLetters
       THEN handleLetterClick(kbLocked, kbInput, keyLetter(key))
       ELSE UNCHANGED vars

\* handleAnimationEnd
AnimationEnd ==
    /\ Interactive
    /\ shake
    /\ shake' = FALSE
    /\ UNCHANGED <<words, variant, mounted, currentIndex, userInput, isLocked,
                   status, feedback, mistakes, progressLoaded, audioVars,
                   showNextPopup, shuffledLetters, storage, kbVars>>

\* handleAudioClick up to the await
ClickAudio ==
    /\ Interactive
    /\ ~isAudioBusy
    /\ audioAvailable
    /\ isAudioBusy' = TRUE
    /\ playPending' = TRUE
    /\ UNCHANGED <<words, variant, mounted, currentIndex, userInput, isLocked,
                   status, feedback, mistakes, progressLoaded, audioAvailable,
                   stalePlay, shake, showNextPopup, shuffledLetters, storage,
                   kbVars>>

\* the awaited play() resolves
PlayResolved ==
    /\ playPending
    /\ playPending' = FALSE
    /\ UNCHANGED <<words, variant, mounted, currentIndex, userInput, isLocked,
                   status, feedback, mistakes, progressLoaded, isAudioBusy,
                   audioAvailable, stalePlay, shake, showNextPopup,
                   shuffledLetters, storage, kbVars>>

\* the catch block without setAudioAvailable(false)
audioFailed_stillAvailable ==
    /\ isAudioBusy' = FALSE
    /\ UNCHANGED audioAvailable
    /\ feedback' = [message |-> MsgAudio, tone |-> "error"]
    /\ UNCHANGED <<words, variant, mounted, currentIndex, userInput, isLocked,
                   status, mistakes, progressLoaded, shake, showNextPopup,
                   shuffledLetters, storage, kbVars>>

\* the catch block of handleAudioClick
audioFailed ==
    /\ isAudioBusy' = FALSE
    /\ audioAvailable' = FALSE
    /\ feedback' = [message |-> MsgAudio, tone |-> "error"]
    /\ UNCHANGED <<words, variant, mounted, currentIndex, userInput, isLocked,
                   status, mistakes, progressLoaded, shake, showNextPopup,
                   shuffledLetters, storage, kbVars>>

\* the awaited play() of the current word's clip rejects
PlayRejected ==
    /\ playPending
    /\ playPending' = FALSE
    /\ UNCHANGED stalePlay
    /\ audioFailed

\* a play() started for an earlier word rejects: load() aborted it
StalePlayRejected ==
    /\ stalePlay
    /\ stalePlay' = FALSE
    /\ UNCHANGED playPending
    /\ audioFailed

\* onEnded, onPause
AudioEnded ==
    /\ Interactive
    /\ isAudioBusy
    /\ isAudioBusy' = FALSE
    /\ UNCHANGED <<words, variant, mounted, currentIndex, userInput, isLocked,
                   status, feedback, mistakes, progressLoaded, audioAvailable,
                   playPending, stalePlay, shake, showNextPopup,
                   shuffledLetters, storage, kbVars>>

\* onError of the audio element
AudioError ==
    /\ Interactive
    /\ UNCHANGED <<playPending, stalePlay>>
    /\ audioFailed

\* the learner's events and the mount
SessionNext ==
    \/ Mount
    \/ \E t \in 1..Len(Tiles) : ClickLetter(t)
    \/ ClickBackspace
    \/ ClickClear
    \/ ClickCheck
    \/ ClickNext
    \/ \E key \in Keys : KeyDown(key)
    \/ AnimationEnd

\* the playback of the word's clip
AudioNext ==
    \/ ClickAudio
    \/ PlayResolved
    \/ PlayRejected
    \/ StalePlayRejected
    \/ AudioEnded
    \/ AudioError

Next == SessionNext \/ AudioNext

Spec == Init /\ [][Next]_vars

\* the session while the word's clip is left alone
SpecSession == Init /\ [][SessionNext]_vars

\* a dataset with a word of three letters, one of them twice
LongWords ==
    << Word("w1", <<"d", "a">>, <<"d", "a">>, ""),
       Word("w4", <<"a", "d", "a">>, <<"a", "d", "a">>, "") >>

\* what the sessions over LongWords find in localStorage
LongStored == { NoItem, ObjectItem(JNum(1), JMap(EmptyMap)) }

\* the sessions over LongWords while the word's clip is left alone
SpecLong ==
    InitOf({LongWords}, Variants, LongStored) /\ [][SessionNext]_vars

\* what the audio sessions find in localStorage
AudioStored == { NoItem, ObjectItem(JNum(1), JMap(EmptyMap)) }

\* the datasets of the audio sessions: one word, and two
AudioDatasets == { SubSeq(AllWords, 1, n) : n \in 1..2 }

\* the sessions with the playback of the clip
SpecAudio ==
    InitOf(AudioDatasets, Variants, AudioStored) /\ [][Next]_vars

-----------------------------------------------------------------------------
(* The claims *)

\* the attempt as check() reads it, and the target
attempt == join(userInput)

target == currentWord.word

\* the count of word id, a missing counter counting as 0
countOf(m, id) == IF id \in DOMAIN m THEN m[id] ELSE 0

\* C1: in an unlocked state, check() on an attempt equal to the target
\* spelling sets the lock and status success and changes no mistake counter.
C1_CheckCorrectLocks ==
    [][ (ClickCheck /\ ~isLocked /\ attempt = target)
        => (isLocked' /\ status' = "success" /\ mistakes' = mistakes) ]_vars

\* C1 witness: a correct attempt has been checked and is locked as a success
C1_Witness ==
    /\ Interactive
    /\ isLocked
    /\ status = "success"
    /\ attempt = target
    /\ feedback.message = MsgCorrect

C3_CheckLengthOnlyFeedback ==
    [][ ((ClickCheck \/ KeyDown("Enter")) /\ Interactive
            /\ Len(attempt) # Len(target))
        => UNCHANGED <<mistakes, isLocked, userInput, currentIndex, storage,
                       showNextPopup, progressLoaded, shuffledLetters>> ]_vars

\* C3 witness: a short attempt has been checked: the feedback counts the one
\* missing letter, nothing was counted as a mistake
C3_Witness ==
    /\ Interactive
    /\ ~isLocked
    /\ Len(attempt) = Len(target) - 1
    /\ feedback.message = MsgLength(1)
    /\ status = "error"
    /\ shake
    /\ mistakes = EmptyMap

\* C4: the attempt is never longer than the current target word.
C4_AttemptWithinTarget ==
    Interactive => Len(userInput) <= Len(target)

\* C5: advance from a valid index i of a dataset of length n > 0 sets
\* currentIndex to (i+1) mod n, and to 0 from n-1.
C5_AdvanceWraps ==
    [][ (ClickNext /\ HasWord)
        => /\ currentIndex' = Num((currentIndex.v + 1) % Len(words))
           /\ (currentIndex.v = Len(words) - 1 => currentIndex' = Num(0)) ]_vars

\* C5 witness: the keydown listener was registered by an advance (it reads a
\* lock), and the advance wrapped from the last of three words to the first
C5_Witness ==
    /\ Interactive
    /\ Len(words) = 3
    /\ kbLocked
    /\ currentIndex = Num(0)

\* C6: once mounted, no event changes currentIndex while the lock is false.
C6_NoAdvanceUnlocked ==
    [][ (mounted /\ ~isLocked) => currentIndex' = currentIndex ]_vars

\* C6 witness: an unlocked session after a failed check, the index as loaded
C6_Witness ==
    /\ Interactive
    /\ ~isLocked
    /\ status = "error"
    /\ ~nextOffered
    /\ currentIndex = Num(1)

\* C7: an advance is followed by the full per-word reset.
C7_AdvanceResets ==
    [][ ClickNext
        => /\ userInput' = <<>>
           /\ ~isLocked'
           /\ status' = "idle"
           /\ feedback' = Neutral
           /\ ~showNextPopup' ]_vars

\* C8: while the session is locked and no advance is taken, no event changes
\* the attempt, the mistake counters, status or the lock.
C8_LockedFrozen ==
    [][ (isLocked /\ ~ClickNext)
        => UNCHANGED <<userInput, mistakes, status, isLocked>> ]_vars

\* the stored record has the shape { index: integer, mistakes: mapping }
Shaped(item) ==
    /\ item.kind = "object"
    /\ item.index.t = "num"
    /\ item.mistakes.t = "map"

\* C9: a stored record {index: i, mistakes: m} with i a valid index of the
\* dataset is loaded as currentIndex = i and mistakes = m, and the record in
\* storage after the load's save is {index: i, mistakes: m} again.
C9_RoundTrip ==
    [][ (Mount /\ Shaped(storage) /\ storage.index.v \in 0..(Len(words) - 1))
        => /\ currentIndex' = Num(storage.index.v)
           /\ mistakes' = storage.mistakes.m
           /\ storage' = storage
           /\ storage' = JSONstringify(currentIndex', mistakes') ]_vars

\* C9 witness: mounted from the record {index: 2, mistakes: {w1: 1}}
C9_Witness ==
    /\ mounted
    /\ progressLoaded
    /\ currentIndex = Num(2)
    /\ mistakes = ("w1" :> 1)
    /\ storage = ObjectItem(JNum(2), JMap(("w1" :> 1)))
    /\ userInput = <<>>
    /\ ~kbLocked

\* C10: with a non-empty dataset, a stored value that is missing, no JSON or
\* not of the shape {index: integer, mistakes: mapping} loads as index 0 and
\* no mistakes, with progressLoaded true and the practice view rendered.
C10_CorruptFallsBack ==
    [][ (Mount /\ Len(words) > 0 /\ ~Shaped(storage))
        => /\ currentIndex' = Num(0)
           /\ mistakes' = EmptyMap
           /\ progressLoaded'
           /\ Interactive' ]_vars

\* ids of the words of the dataset
datasetIds == { words[i].id : i \in 1..Len(words) }

\* C11: with a non-empty dataset, currentIndex is an integer in 0..n-1 in
\* every state, whatever record was stored (also one whose index field is not
\* a number) and after any number of advances.
C11_IndexInRange ==
    Len(words) > 0
        => /\ ~currentIndex.nan
           /\ currentIndex.v \in 0..(Len(words) - 1)

\* C12: in every state the keys of mistakes are ids of words of the dataset,
\* also after loading a record that was saved with another dataset.
C12_MistakeKeysInDataset ==
    DOMAIN mistakes \subseteq datasetIds

\* the letters occurring in a sequence of letters
lettersOf(s) == { s[i] : i \in 1..Len(s) }

\* how often a letter occurs in a sequence of letters
occurrences(s, x) == Cardinality({ i \in 1..Len(s) : s[i] = x })

\* C13 (as stated): every letter of the attempt is a letter of the current
\* word's letters and occurs in the attempt no more often than in the letters.
C13_AttemptWithinMultiset ==
    Interactive
        => \A x \in lettersOf(userInput) :
              /\ x \in lettersOf(currentWord.letters)
              /\ occurrences(userInput, x) <= occurrences(currentWord.letters, x)

\* C13 (amended): every letter of the attempt is a letter of the current
\* word's letters as a tile shows it, or the lower-case form of one as a key
\* press appends it; how often it is used is not limited by the letters.
C13_AttemptLettersOfWord ==
    Interactive
        => \A x \in lettersOf(userInput) :
              x \in lettersOf(currentWord.letters) \cup allowedLetters

\* C13 witness: the tile d of "da" chosen twice and a typed A appended as a
C13_Witness ==
    /\ Interactive
    /\ currentWord.id = "w1"
    /\ userInput = <<"d", "d", "a">>
    /\ kbInput = <<>>
    /\ ~kbLocked

\* a state in which clear() has nothing to do: the one clear() leaves behind
cleared == isLocked \/ userInput = <<>>

\* C14: clear() leaves a state in which a second clear() changes no variable,
\* and removeLast() on an empty attempt changes no variable; the same holds
\* for the Escape and Backspace keys.
C14_ClearAndRemoveIdempotent ==
    [][ /\ (ClickClear \/ KeyDown("Escape")) /\ ~cleared => cleared'
        /\ (ClickClear \/ KeyDown("Escape")) /\ cleared => UNCHANGED vars
        /\ (ClickBackspace \/ KeyDown("Backspace")) /\ userInput = <<>>
               => UNCHANGED vars ]_vars

\* C14 witness: after a wrong check of "ba" for "ab" the attempt was cleared,
\* which also reset status and feedback; a second clear() finds this state
C14_Witness ==
    /\ Interactive
    /\ currentWord.id = "w2"
    /\ ~kbLocked
    /\ "w2" \in DOMAIN mistakes
    /\ userInput = <<>>
    /\ status = "idle"
    /\ feedback = Neutral

\* the operation the spec assigns to a key, applied to the current state
operationOf(key) ==
    IF key = "Backspace" THEN handleBackspace(isLocked, userInput)
    ELSE IF key = "Enter" THEN handleCheck(isLocked, userInput)
    ELSE IF key = "Escape" THEN handleClear(isLocked, userInput)
    ELSE IF KeyLength(toLowerCase(key)) = 1 /\ toLowerCase(key) \in allowedLetters
       THEN handleLetterClick(isLocked, userInput, toLowerCase(key))
       ELSE UNCHANGED vars

\* C15: a key press changes the state as the corresponding operation does on
\* the current state: Backspace as removeLast(), Enter as check(), Escape as
\* clear(), a letter key of the word as appendLetter(letter).
C15_KeyAsOperation ==
    [][ \A key \in Keys : (Interactive /\ KeyDown(key)) => operationOf(key) ]_vars

\* a play() of the clip rejects or the audio element reports an error
playFailure == PlayRejected \/ StalePlayRejected \/ AudioError

\* C16: a failure of the playback sets audioAvailable and isAudioBusy to false
\* and leaves the attempt, the lock, the mistakes and the index alone; while
\* audioAvailable is false no play is started; audioAvailable becomes true
\* again only when another word becomes current, and then it does.
C16_PlaybackFailure ==
    [][ /\ playFailure
            => /\ ~audioAvailable'
               /\ ~isAudioBusy'
               /\ UNCHANGED <<userInput, isLocked, mistakes, currentIndex>>
        /\ ~audioAvailable
            => /\ ~ClickAudio
               /\ playPending' => playPending
               /\ isAudioBusy' => isAudioBusy
        /\ (~audioAvailable /\ audioAvailable') => currentIndex' # currentIndex
        /\ (mounted /\ currentIndex' # currentIndex) => audioAvailable' ]_vars

\* C16 witness: the clip of "ab" failed while the attempt was "a"
C16_Witness ==
    /\ Interactive
    /\ currentWord.id = "w2"
    /\ userInput = <<"a">>
    /\ ~audioAvailable
    /\ ~isAudioBusy
    /\ ~playPending
    /\ feedback = [message |-> MsgAudio, tone |-> "error"]

\* the stored record holds the index and the mistakes of the session
recordIsState ==
    /\ storage.kind = "object"
    /\ ~currentIndex.nan
    /\ storage.index = JNum(currentIndex.v)
    /\ storage.mistakes = JMap(mistakes)

\* C17: once progress is loaded, storage is written only with the record
\* {index: currentIndex, mistakes} of the state after the change, so that
\* after a write the stored record equals the state in memory; a step that
\* changes neither index nor mistakes writes nothing (no write is retried),
\* and a write that fails leaves the step's other effects as they are.
C17_WriteEqualsState ==
    [][ /\ storage' # storage => progressLoaded' /\ recordIsState'
        /\ ( /\ progressLoaded
             /\ currentIndex' = currentIndex
             /\ mistakes' = mistakes ) => storage' = storage ]_vars

\* the state of the session and of the storage, all but the mount itself
sessionState ==
    <<currentIndex, userInput, isLocked, status, feedback, mistakes,
      progressLoaded, isAudioBusy, audioAvailable, shake, showNextPopup,
      shuffledLetters, storage, kbLocked, kbInput, playPending, stalePlay>>

\* C18: with an empty dataset no step changes the state of the session or the
\* stored item, progress is never loaded (nothing is read or written) and the
\* view with the controls is never rendered.
C18_EmptyDatasetStatic ==
    [][ Len(words) = 0
           => /\ UNCHANGED sessionState
              /\ ~progressLoaded'
              /\ ~Interactive' ]_vars

\* C18 witness: the component is mounted over the empty dataset while a
\* record is stored
C18_Witness ==
    /\ Len(words) = 0
    /\ mounted
    /\ storage = ObjectItem(JNum(1), JMap(("w1" :> 1)))
    /\ currentIndex = Num(0)
    /\ mistakes = EmptyMap

\* the feedback for an attempt that is `missing` letters short
missingLetters(missing) ==
    [text |-> "Dir fehlen noch", count |-> missing,
     suffix |-> IF missing = 1 THEN "Buchstabe." ELSE "Buchstaben.",
     hint |-> <<>>]

\* the feedback for an attempt that is too long
tooManyLetters ==
    IF variant = "popup" THEN Msg("Du hast zu viele Buchstaben gewaehlt.")
    ELSE Msg("Zu viele Buchstaben.")

\* C19: check() of an unlocked session first tests for the empty attempt
\* (needs-a-letter feedback), then for a length k other than the target's L
\* (k < L: exactly L-k letters missing, singular iff L-k = 1; k > L: too
\* many), and compares attempt and target only when k = L; in the first two
\* outcomes the tone is error, the shake is set, and neither the lock nor the
\* mistakes change.
C19_CheckPriority ==
    [][ (ClickCheck /\ ~isLocked)
        => LET k == Len(attempt)
               L == Len(target)
           IN  IF k # L
               THEN /\ feedback'.message =
                          IF k = 0 THEN MsgEmpty
                          ELSE IF k < L THEN missingLetters(L - k)
                          ELSE tooManyLetters
                    /\ feedback'.tone = "error"
                    /\ shake'
                    /\ UNCHANGED <<isLocked, mistakes>>
               ELSE /\ isLocked' = (attempt = target)
                    /\ feedback'.message =
                          IF attempt = target THEN MsgCorrect
                          ELSE MsgWrong(currentWord.tip) ]_vars

\* C19 witness: "a" was checked against "ada": two letters are missing
C19_Witness ==
    /\ Interactive
    /\ currentWord.id = "w4"
    /\ userInput = <<"a">>
    /\ feedback = [message |-> missingLetters(2), tone |-> "error"]
    /\ feedback.message.suffix = "Buchstaben."
    /\ shake

\* two sequences of letters hold the same letters, each as often
sameMultiset(s, t) ==
    /\ Len(s) = Len(t)
    /\ \A x \in lettersOf(s) \cup lettersOf(t) :
          occurrences(s, x) = occurrences(t, x)

\* C20: after every step that leaves a current word, the letter tiles
\* (shuffledLetters in the popup version) are a permutation of the word's
\* letters, nothing added or dropped; and when the step changed the current
\* word, by an advance or by loading a stored index, shuffledLetters is a
\* fresh shuffle of the new word's letters.
C20_ShuffledIsPermutation ==
    [][ Interactive'
           => /\ sameMultiset(Tiles', currentWord'.letters)
              /\ (variant = "popup")
                    => /\ sameMultiset(shuffledLetters', currentWord'.letters)
                       /\ currentIndex' # currentIndex
                             => shuffledLetters' \in shuffleArray(currentWord'.letters) ]_vars

\* C20 witness: after the advance from "da" to "ada" the tiles are d, a, a
C20_Witness ==
    /\ Interactive
    /\ variant = "popup"
    /\ currentWord.id = "w4"
    /\ kbLocked
    /\ shuffledLetters = <<"d", "a", "a">>
    /\ shuffledLetters # currentWord.letters

\* C21: whenever a step changes the current word, the tiles then shown
\* (shuffledLetters) are not in the order of the new word's spelling, whatever
\* the random choices of the shuffle, if the word has two distinct letters.
C21_LayoutDiffersFromSpelling ==
    [][ ( /\ Interactive'
          /\ variant = "popup"
          /\ currentIndex' # currentIndex
          /\ Cardinality(lettersOf(currentWord'.letters)) >= 2 )
        => shuffledLetters' # currentWord'.word ]_vars

\* C22: in every state with a current word, the session is locked exactly if
\* status is success and exactly if the advance is offered (the popup is
\* shown, or the Next button is enabled); a locked session without the
\* advance on offer is not reachable.
C22_LockedIffSuccessIffOffered ==
    Interactive
        => /\ isLocked <=> (status = "success")
           /\ isLocked <=> nextOffered

\* C23: storage is not written while progress is not loaded, so the record
\* found at the start is never replaced by the defaults before it is read;
\* the write of the mount, if it changes storage, stores the record of the
\* state after the load, which for a stored object is the loaded index
\* (normalised) and the loaded mistakes.
C23_NoSaveBeforeLoad ==
    [][ /\ ~progressLoaded' => storage' = storage
        /\ (Mount /\ storage' # storage)
              => /\ storage' = JSONstringify(currentIndex', mistakes')
                 /\ loadSets(storage)
                       => /\ currentIndex' =
                                normalizeIndex(parsedIndex(storage), Len(words))
                          /\ mistakes' = parsedMistakes(storage) ]_vars

\* C23 witness: over a one-word dataset the record {index: 1, mistakes:
\* {w9: 1}} was loaded and written back as {index: 0, mistakes: {w9: 1}}
C23_Witness ==
    /\ mounted
    /\ Len(words) = 1
    /\ progressLoaded
    /\ currentIndex = Num(0)
    /\ mistakes = ("w9" :> 1)
    /\ storage = ObjectItem(JNum(0), JMap(("w9" :> 1)))
    /\ userInput = <<>>
    /\ status = "idle"

\* C24: the rejection of a play() that was started for an earlier word,
\* delivered after the advance and its reset, changes nothing of the new
\* word's state: audioAvailable, the feedback and isAudioBusy stay as they are.
C24_StaleRejectionIgnored ==
    [][ StalePlayRejected
           => UNCHANGED <<audioAvailable, feedback, isAudioBusy>> ]_vars

====
